---- MODULE Spec2Model ----
(***************************************************************************)
(* A model of advanced-vector/vector.h: RawMemory<T> (a block of raw       *)
(* storage) and Vector<T> (a growable array that constructs and destroys   *)
(* its elements in that storage by hand).                                  *)
(*                                                                         *)
(* The heap is a set of numbered blocks; a block is a sequence of slots.   *)
(* A slot is either raw (no object lives there: never constructed, or      *)
(* already destroyed) or holds a live object with a value.  A moved-from   *)
(* object is live and holds the value MovedFrom.                           *)
(* Every public member function of Vector is one action.                   *)
(***************************************************************************)
EXTENDS Integers, Sequences, FiniteSets, TLC

\* ------------------------------------------------------------- bounds
\* Largest capacity a block may be allocated with in Spec.
MaxCap == 4
\* Largest capacity a block may be allocated with in SpecPair.
MaxPairCap == 2
\* Largest capacity a block may be allocated with in SpecAppend.
MaxAppendCap == 8
\* Number of block addresses of the heap.
MaxBlocks == 3
\* Largest capacity a block may be allocated with in SpecCopy.
MaxCopyCap == 2
\* Largest capacity a block may be allocated with in SpecThrow.
MaxThrowCap == 4
\* Largest capacity a block may be allocated with in SpecAlias.
MaxAliasCap == 4

\* ------------------------------------------------------------- values
Vecs == {"a", "b"}
Values == {"A", "B"}
\* T(): the value of a value-initialised element.
DefaultVal == "0"
\* The state of an object after it has been moved from.
MovedFrom == "moved"
\* A slot of raw storage in which no object lives.
Raw == "raw"
IsLive(s) == s # Raw

BlockIds == 1..MaxBlocks
\* nullptr
NullPtr == 0

VARIABLES
    vec,          \* vec[v]: the Vector object v: live, data_ (buffer_, capacity_), size_
    heap,         \* heap[b]: the block at address b: alloc, slots
    nothrowMove,  \* std::is_nothrow_move_constructible_v<T> of the element type
    copyable,     \* std::is_copy_constructible_v<T> of the element type
    capLimit,     \* the largest allocation the run may make
    inputs,       \* the values the run may pass to an insertion
    pushes,       \* pushes[v]: appends made to v since its default construction, -1
                  \*   once any other operation has acted on v
    last          \* the last completed operation: op, v, k, ret, ub

vars == <<vec, heap, nothrowMove, copyable, capLimit, inputs, pushes, last>>

\* ------------------------------------------------------------- RawMemory
\* RawMemory(): buffer_ = nullptr, capacity_ = 0.
EmptyMemory == [buffer_ |-> NullPtr, capacity_ |-> 0]

FreeBlock == [alloc |-> FALSE, slots |-> <<>>]

\* The machine state an operation threads through its steps: the heap and the
\* undefined or leaking accesses made so far ("oob": an access outside the
\* block; "destroy_raw": a destructor run where no object lives; "assign_raw":
\* an assignment to a slot where no object lives; "overwrite_live": an object
\* constructed over a live one; "leak": a block released with live objects).
Machine(h) == [h |-> h, ub |-> {}]
Flag(M, f) == [M EXCEPT !.ub = @ \cup {f}]

\* Allocate(n): the address operator new returns (the lowest free one), or
\* nullptr for n = 0.
Allocate(M, n) ==
    IF n # 0
    THEN CHOOSE b \in BlockIds :
            /\ ~M.h[b].alloc
            /\ \A c \in BlockIds : c < b => M.h[c].alloc
    ELSE NullPtr

\* RawMemory(capacity): the heap after the allocation of n raw slots at buf.
NewRawMemory(M, buf, n) ==
    IF buf = NullPtr THEN M
    ELSE [M EXCEPT !.h[buf] = [alloc |-> TRUE, slots |-> [i \in 1..n |-> Raw]]]

\* ~RawMemory(): Deallocate(buffer_); no destructor of an element runs.
Deallocate(M, buf) ==
    IF buf = NullPtr THEN M
    ELSE LET M1 == IF \E i \in DOMAIN M.h[buf].slots : IsLive(M.h[buf].slots[i])
                   THEN Flag(M, "leak") ELSE M
         IN  [M1 EXCEPT !.h[buf] = FreeBlock]

\* RawMemory::Swap.
RawSwap(d1, d2) == <<d2, d1>>

\* ------------------------------------------------------------- slots
InBounds(M, buf, i) ==
    /\ buf # NullPtr
    /\ M.h[buf].alloc
    /\ i >= 0
    /\ i < Len(M.h[buf].slots)

Load(M, buf, i) == IF InBounds(M, buf, i) THEN M.h[buf].slots[i + 1] ELSE Raw
Store(M, buf, i, x) == [M EXCEPT !.h[buf].slots[i + 1] = x]

\* new (buf + i) T(x): placement construction.
ConstructAt(M, buf, i, x) ==
    IF ~InBounds(M, buf, i) THEN Flag(M, "oob")
    ELSE Store(IF IsLive(Load(M, buf, i)) THEN Flag(M, "overwrite_live") ELSE M,
               buf, i, x)

\* buf[i] = x: assignment to the object in slot i.  Where no object lives the
\* behaviour is undefined for a T that is not trivially assignable; the value
\* is stored in every outcome that returns.
AssignAt(M, buf, i, x) ==
    IF ~InBounds(M, buf, i) THEN Flag(M, "oob")
    ELSE Store(IF IsLive(Load(M, buf, i)) THEN M ELSE Flag(M, "assign_raw"),
               buf, i, x)

\* std::destroy_at(buf + i): runs ~T() on slot i.  On a slot with no live
\* object, or past the block, the behaviour is undefined: a trivial ~T() does
\* nothing and any other ~T() runs on indeterminate storage; in every outcome
\* that returns, no live object of the block is ended and the slot holds no
\* live object afterwards, and the access is recorded in ub.
DestroyAt(M, buf, i) ==
    IF ~InBounds(M, buf, i) THEN Flag(M, "oob")
    ELSE IF ~IsLive(Load(M, buf, i)) THEN Flag(M, "destroy_raw")
    ELSE Store(M, buf, i, Raw)

\* A destruction loop that stops one element early.
RECURSIVE DestroyAllButLast(_, _, _, _)
DestroyAllButLast(M, buf, off, n) ==
    IF n <= 1 THEN M
    ELSE DestroyAllButLast(DestroyAt(M, buf, off), buf, off + 1, n - 1)

\* std::destroy_n(buf + off, n) and Vector::DestroyN.
RECURSIVE DestroyN(_, _, _, _)
DestroyN(M, buf, off, n) ==
    IF n = 0 THEN M
    ELSE DestroyN(DestroyAt(M, buf, off), buf, off + 1, n - 1)

\* std::uninitialized_move_n(src + soff, n, dst + doff): each source object is
\* left moved-from.
RECURSIVE UninitializedMoveN(_, _, _, _, _, _)
UninitializedMoveN(M, sbuf, soff, n, dbuf, doff) ==
    IF n = 0 THEN M
    ELSE LET x  == Load(M, sbuf, soff)
             M1 == ConstructAt(M, dbuf, doff, x)
             M2 == Store(M1, sbuf, soff, MovedFrom)
         IN  UninitializedMoveN(M2, sbuf, soff + 1, n - 1, dbuf, doff + 1)

\* std::uninitialized_copy_n(src + soff, n, dst + doff).
RECURSIVE UninitializedCopyN(_, _, _, _, _, _)
UninitializedCopyN(M, sbuf, soff, n, dbuf, doff) ==
    IF n = 0 THEN M
    ELSE UninitializedCopyN(ConstructAt(M, dbuf, doff, Load(M, sbuf, soff)),
                            sbuf, soff + 1, n - 1, dbuf, doff + 1)

\* std::uninitialized_value_construct_n(buf + off, n).
RECURSIVE UninitializedValueConstructN(_, _, _, _)
UninitializedValueConstructN(M, buf, off, n) ==
    IF n = 0 THEN M
    ELSE UninitializedValueConstructN(ConstructAt(M, buf, off, DefaultVal),
                                      buf, off + 1, n - 1)

\* A relocation that leaves the last element behind.
RelocateAllButLast(M, sbuf, soff, n, dbuf, doff, nt) ==
    IF n = 0 THEN M
    ELSE IF nt THEN UninitializedMoveN(M, sbuf, soff, n - 1, dbuf, doff)
    ELSE UninitializedCopyN(M, sbuf, soff, n - 1, dbuf, doff)

\* The relocation every growth path makes: by move if T's move constructor
\* cannot throw, by copy otherwise.
Relocate(M, sbuf, soff, n, dbuf, doff, nt) ==
    IF nt THEN UninitializedMoveN(M, sbuf, soff, n, dbuf, doff)
    ELSE UninitializedCopyN(M, sbuf, soff, n, dbuf, doff)

\* std::uninitialized_value_construct_n(buf + off, n) when T() throws for the
\* k-th object, k in 1..n: the k - 1 objects constructed are destroyed and the
\* exception propagates.
UninitializedValueConstructNThrows(M, buf, off, k) ==
    DestroyN(UninitializedValueConstructN(M, buf, off, k - 1), buf, off, k - 1)

\* A copy that leaves its partial copies alive when the k-th one throws.
UninitializedCopyNoRollback(M, sbuf, soff, dbuf, doff, k) ==
    UninitializedCopyN(M, sbuf, soff, k - 1, dbuf, doff)

\* std::uninitialized_copy_n when the copy of the k-th object throws.
UninitializedCopyNThrows(M, sbuf, soff, dbuf, doff, k) ==
    DestroyN(UninitializedCopyN(M, sbuf, soff, k - 1, dbuf, doff), dbuf, doff, k - 1)

\* std::uninitialized_move_n when the move of the k-th object throws: the
\* k - 1 sources already moved from stay moved-from.
UninitializedMoveNThrows(M, sbuf, soff, dbuf, doff, k) ==
    DestroyN(UninitializedMoveN(M, sbuf, soff, k - 1, dbuf, doff), dbuf, doff, k - 1)

\* The relocation of a growth path when that of the k-th element throws.
RelocateThrows(M, sbuf, soff, dbuf, doff, nt, k) ==
    IF nt THEN UninitializedMoveNThrows(M, sbuf, soff, dbuf, doff, k)
    ELSE UninitializedCopyNThrows(M, sbuf, soff, dbuf, doff, k)

\* ------------------------------------------------------------- Vector
\* Vector(): data_ empty, size_ = 0.
EmptyVector == [live |-> TRUE, data_ |-> EmptyMemory, size_ |-> 0]
\* The storage of a Vector object whose lifetime has ended.
NoVector == [live |-> FALSE, data_ |-> EmptyMemory, size_ |-> 0]

Size(V) == V.size_
Capacity(V) == V.data_.capacity_
Buf(V) == V.data_.buffer_

\* The elements of V in index order, as operator[] reads them.
Elems(M, V) == [i \in 1..Size(V) |-> Load(M, Buf(V), i - 1)]

\* The argument of an insertion: a value, or a reference to the element idx
\* of the block buf.
ValSrc(x) == [ref |-> FALSE, val |-> x, buf |-> NullPtr, idx |-> 0]
RefSrc(V, i) == [ref |-> TRUE, val |-> Raw, buf |-> Buf(V), idx |-> i]
Read(M, src) == IF src.ref THEN Load(M, src.buf, src.idx) ELSE src.val
ValSrcs == {ValSrc(x) : x \in inputs}
Srcs(V) == ValSrcs \cup {RefSrc(V, i) : i \in 0..(Size(V) - 1)}

\* The result of an operation: the machine, the vector, the value returned.
Result(M, V, ret) == [M |-> M, V |-> V, ret |-> ret]

\* Vector(size_t size): data_(size), size_(size), then value-construct.
SizedCtorOp(M, size) ==
    LET nb == Allocate(M, size)
        M1 == NewRawMemory(M, nb, size)
        M2 == UninitializedValueConstructN(M1, nb, 0, size)
    IN  Result(M2, [live |-> TRUE,
                    data_ |-> [buffer_ |-> nb, capacity_ |-> size],
                    size_ |-> size], 0)

\* A copy constructor that allocates other's capacity.
CopyCtorKeepsCapacity(M, other) ==
    LET nb == Allocate(M, Capacity(other))
        M1 == NewRawMemory(M, nb, Capacity(other))
        M2 == UninitializedCopyN(M1, Buf(other), 0, Size(other), nb, 0)
    IN  Result(M2, [live |-> TRUE,
                    data_ |-> [buffer_ |-> nb, capacity_ |-> Capacity(other)],
                    size_ |-> Size(other)], 0)

\* Vector(const Vector& other): data_(other.size_), size_(other.size_), then copy.
CopyCtorOp(M, other) ==
    LET nb == Allocate(M, Size(other))
        M1 == NewRawMemory(M, nb, Size(other))
        M2 == UninitializedCopyN(M1, Buf(other), 0, Size(other), nb, 0)
    IN  Result(M2, [live |-> TRUE,
                    data_ |-> [buffer_ |-> nb, capacity_ |-> Size(other)],
                    size_ |-> Size(other)], 0)

\* Vector(size_t size) when T() throws for the k-th element: the members
\* already constructed are destroyed (~RawMemory releases the block); ~Vector
\* does not run and the Vector never becomes live.
SizedCtorThrowsOp(M, size, k) ==
    LET nb == Allocate(M, size)
        M1 == NewRawMemory(M, nb, size)
        M2 == UninitializedValueConstructNThrows(M1, nb, 0, k)
    IN  Result(Deallocate(M2, nb), NoVector, 0)

\* Vector(const Vector& other) when the copy of the k-th element throws.
CopyCtorThrowsOp(M, other, k) ==
    LET nb == Allocate(M, Size(other))
        M1 == NewRawMemory(M, nb, Size(other))
        M2 == UninitializedCopyNThrows(M1, Buf(other), 0, nb, 0, k)
    IN  Result(Deallocate(M2, nb), NoVector, 0)

\* A move constructor that leaves other its block.
MoveCtorSharesBlock(other) ==
    << [live |-> TRUE, data_ |-> other.data_, size_ |-> Size(other)],
       [other EXCEPT !.size_ = 0] >>

\* A move constructor that leaves other its size.
MoveCtorKeepsSize(other) ==
    LET sw == RawSwap(EmptyMemory, other.data_)
    IN  << [live |-> TRUE, data_ |-> sw[1], size_ |-> Size(other)],
           [other EXCEPT !.data_ = sw[2]] >>

\* Vector(Vector&& other): data_ takes other.data_ by RawMemory's move
\* constructor (a Swap with an empty RawMemory), size_(other.size_),
\* other.size_ = 0.  The pair is <<the new vector, other afterwards>>.
MoveCtorOp(other) ==
    LET sw == RawSwap(EmptyMemory, other.data_)
    IN  << [live |-> TRUE, data_ |-> sw[1], size_ |-> Size(other)],
           [other EXCEPT !.data_ = sw[2], !.size_ = 0] >>

\* A Swap that exchanges the blocks and forgets the sizes.
SwapBlocksOnly(V, other) ==
    LET sw == RawSwap(V.data_, other.data_)
    IN  << [V EXCEPT !.data_ = sw[1]], [other EXCEPT !.data_ = sw[2]] >>

\* Vector::Swap: the pair is <<this afterwards, other afterwards>>.
SwapOp(V, other) ==
    LET sw == RawSwap(V.data_, other.data_)
    IN  << [V EXCEPT !.data_ = sw[1], !.size_ = Size(other)],
           [other EXCEPT !.data_ = sw[2], !.size_ = Size(V)] >>

\* ~Vector(): DestroyN(data_.GetAddress(), size_), then ~RawMemory.
DtorOp(M, V) ==
    LET M1 == DestroyN(M, Buf(V), 0, Size(V))
    IN  Result(Deallocate(M1, Buf(V)), NoVector, 0)

\* Vector::operator=(Vector&& other); self: this == &other.  The pair is
\* <<this afterwards, other afterwards>>.
MoveAssignOp(V, other, self) ==
    IF self THEN <<V, other>> ELSE SwapOp(V, other)

\* A Reserve that reallocates also when the capacity asked for is the one held.
ReserveAlsoWhenEqual(M, V, new_capacity, nt) ==
    IF new_capacity >= Capacity(V)
    THEN LET nb == Allocate(M, new_capacity)
             M1 == NewRawMemory(M, nb, new_capacity)
             M2 == Relocate(M1, Buf(V), 0, Size(V), nb, 0, nt)
             M3 == DestroyN(M2, Buf(V), 0, Size(V))
             sw == RawSwap(V.data_, [buffer_ |-> nb, capacity_ |-> new_capacity])
             M4 == Deallocate(M3, sw[2].buffer_)
         IN  Result(M4, [V EXCEPT !.data_ = sw[1]], 0)
    ELSE Result(M, V, 0)

\* Vector::Reserve.
ReserveOp(M, V, new_capacity, nt) ==
    IF new_capacity > Capacity(V)
    THEN LET nb == Allocate(M, new_capacity)
             M1 == NewRawMemory(M, nb, new_capacity)
             M2 == Relocate(M1, Buf(V), 0, Size(V), nb, 0, nt)
             M3 == DestroyN(M2, Buf(V), 0, Size(V))
             sw == RawSwap(V.data_, [buffer_ |-> nb, capacity_ |-> new_capacity])
             M4 == Deallocate(M3, sw[2].buffer_)
         IN  Result(M4, [V EXCEPT !.data_ = sw[1]], 0)
    ELSE Result(M, V, 0)

\* Vector::Resize.
ResizeOp(M, V, new_size, nt) ==
    IF Size(V) > new_size
    THEN Result(DestroyN(M, Buf(V), new_size, Size(V) - new_size),
                [V EXCEPT !.size_ = new_size], 0)
    ELSE IF Size(V) < new_size
    THEN LET R  == ReserveOp(M, V, new_size, nt)
             M1 == UninitializedValueConstructN(R.M, Buf(R.V), Size(V),
                                                new_size - Size(V))
         IN  Result(M1, [R.V EXCEPT !.size_ = new_size], 0)
    ELSE Result(M, V, 0)

\* A growth by one slot instead of a doubling.
GrowthByOne(V) == Size(V) + 1

\* The capacity PushBack(const T&) and EmplaceBack grow to.
GrowthOfSize(V) == IF Size(V) = 0 THEN 1 ELSE Size(V) * 2

Max(x, y) == IF x >= y THEN x ELSE y

\* A growth that only doubles: an empty block stays empty.
GrowthDoublingOnly(V) == Capacity(V) * 2

\* The capacity PushBack(U&&) and Emplace grow to.
GrowthOfCapacity(V) == Max(Capacity(V) * 2, Size(V) + 1)

\* Vector::PushBack(const T& value).
PushBackCopyOp(M, V, src, nt) ==
    IF Size(V) = Capacity(V)
    THEN LET nc == GrowthOfSize(V)
             nb == Allocate(M, nc)
             M1 == NewRawMemory(M, nb, nc)
             M2 == AssignAt(M1, nb, Size(V), Read(M1, src))
             M3 == Relocate(M2, Buf(V), 0, Size(V), nb, 0, nt)
             M4 == DestroyN(M3, Buf(V), 0, Size(V))
             sw == RawSwap(V.data_, [buffer_ |-> nb, capacity_ |-> nc])
             M5 == Deallocate(M4, sw[2].buffer_)
         IN  Result(M5, [V EXCEPT !.data_ = sw[1], !.size_ = @ + 1], 0)
    ELSE Result(AssignAt(M, Buf(V), Size(V), Read(M, src)),
                [V EXCEPT !.size_ = @ + 1], 0)

\* Vector::PushBack(U&& value).
PushBackOp(M, V, src, nt) ==
    IF Capacity(V) > Size(V)
    THEN Result(ConstructAt(M, Buf(V), Size(V), Read(M, src)),
                [V EXCEPT !.size_ = @ + 1], 0)
    ELSE LET nc == GrowthOfCapacity(V)
             nb == Allocate(M, nc)
             M1 == NewRawMemory(M, nb, nc)
             M2 == ConstructAt(M1, nb, Size(V), Read(M1, src))
             M3 == Relocate(M2, Buf(V), 0, Size(V), nb, 0, nt)
             M4 == DestroyN(M3, Buf(V), 0, Size(V))
             sw == RawSwap(V.data_, [buffer_ |-> nb, capacity_ |-> nc])
             M5 == Deallocate(M4, sw[2].buffer_)
         IN  Result(M5, [V EXCEPT !.data_ = sw[1], !.size_ = @ + 1], 0)

\* Vector::EmplaceBack: returns data_[index], given here as the index.
EmplaceBackOp(M, V, src, nt) ==
    IF Size(V) = Capacity(V)
    THEN LET nc == GrowthOfSize(V)
             nb == Allocate(M, nc)
             M1 == NewRawMemory(M, nb, nc)
             M2 == ConstructAt(M1, nb, Size(V), Read(M1, src))
             M3 == Relocate(M2, Buf(V), 0, Size(V), nb, 0, nt)
             M4 == DestroyN(M3, Buf(V), 0, Size(V))
             sw == RawSwap(V.data_, [buffer_ |-> nb, capacity_ |-> nc])
             M5 == Deallocate(M4, sw[2].buffer_)
         IN  Result(M5, [V EXCEPT !.data_ = sw[1], !.size_ = @ + 1], Size(V))
    ELSE Result(ConstructAt(M, Buf(V), Size(V), Read(M, src)),
                [V EXCEPT !.size_ = @ + 1], Size(V))

\* An append whose new element throws and whose growth block is kept.
AppendCtorThrowsKeepsBlock(M, V) ==
    IF Capacity(V) > Size(V) THEN Result(M, V, 0)
    ELSE LET nc == GrowthOfCapacity(V)
             nb == Allocate(M, nc)
         IN  Result(NewRawMemory(M, nb, nc), V, 0)

\* Vector::PushBack(U&&) when the construction of the new element throws: on
\* the growth path new_data goes out of scope (~RawMemory).
PushBackCtorThrowsOp(M, V) ==
    IF Capacity(V) > Size(V) THEN Result(M, V, 0)
    ELSE LET nc == GrowthOfCapacity(V)
             nb == Allocate(M, nc)
             M1 == NewRawMemory(M, nb, nc)
         IN  Result(Deallocate(M1, nb), V, 0)

\* Vector::PushBack(U&&) when the relocation of the k-th element throws: the
\* handler destroys the new element and rethrows, then ~RawMemory.
PushBackRelocateThrowsOp(M, V, src, nt, k) ==
    LET nc == GrowthOfCapacity(V)
        nb == Allocate(M, nc)
        M1 == NewRawMemory(M, nb, nc)
        M2 == ConstructAt(M1, nb, Size(V), Read(M1, src))
        M3 == RelocateThrows(M2, Buf(V), 0, nb, 0, nt, k)
        M4 == DestroyN(M3, nb, Size(V), 1)
    IN  Result(Deallocate(M4, nb), V, 0)

\* Vector::EmplaceBack when the construction of the new element throws.
EmplaceBackCtorThrowsOp(M, V) ==
    IF Size(V) = Capacity(V)
    THEN LET nc == GrowthOfSize(V)
             nb == Allocate(M, nc)
             M1 == NewRawMemory(M, nb, nc)
         IN  Result(Deallocate(M1, nb), V, 0)
    ELSE Result(M, V, 0)

\* Vector::EmplaceBack when the relocation of the k-th element throws: there
\* is no handler; new_data goes out of scope (~RawMemory).
EmplaceBackRelocateThrowsOp(M, V, src, nt, k) ==
    LET nc == GrowthOfSize(V)
        nb == Allocate(M, nc)
        M1 == NewRawMemory(M, nb, nc)
        M2 == ConstructAt(M1, nb, Size(V), Read(M1, src))
        M3 == RelocateThrows(M2, Buf(V), 0, nb, 0, nt, k)
    IN  Result(Deallocate(M3, nb), V, 0)

\* std::move(buf + first, buf + lst, buf + dfirst).
RECURSIVE MoveForward(_, _, _, _, _)
MoveForward(M, buf, first, lst, dfirst) ==
    IF first = lst THEN M
    ELSE LET x  == Load(M, buf, first)
             M1 == AssignAt(M, buf, dfirst, x)
             M2 == Store(M1, buf, first, MovedFrom)
         IN  MoveForward(M2, buf, first + 1, lst, dfirst + 1)

\* The shift to the right made front to back, as std::move would: the ranges
\* overlap, so every element after the first is overwritten before it is read.
MoveRightFrontToBack(M, buf, first, lst, dlast) ==
    MoveForward(M, buf, first, lst, dlast - (lst - first))

\* std::move_backward(buf + first, buf + lst, buf + dlast).
RECURSIVE MoveBackward(_, _, _, _, _)
MoveBackward(M, buf, first, lst, dlast) ==
    IF first = lst THEN M
    ELSE LET x  == Load(M, buf, lst - 1)
             M1 == AssignAt(M, buf, dlast - 1, x)
             M2 == Store(M1, buf, lst - 1, MovedFrom)
         IN  MoveBackward(M2, buf, first, lst - 1, dlast - 1)

\* An Emplace whose in-place branch makes no temporary: it reads its argument
\* after the shift.
EmplaceWithoutTemporary(M, V, offset, src, nt) ==
    IF Capacity(V) > Size(V)
    THEN IF offset # Size(V)
         THEN LET M1 == UninitializedMoveN(M, Buf(V), Size(V) - 1, 1, Buf(V), Size(V))
                  M2 == MoveBackward(M1, Buf(V), offset, Size(V) - 1, Size(V))
                  M3 == AssignAt(M2, Buf(V), offset, Read(M2, src))
              IN  Result(M3, [V EXCEPT !.size_ = @ + 1], offset)
         ELSE Result(ConstructAt(M, Buf(V), Size(V), Read(M, src)),
                     [V EXCEPT !.size_ = @ + 1], offset)
    ELSE LET nc == GrowthOfCapacity(V)
             nb == Allocate(M, nc)
             M1 == NewRawMemory(M, nb, nc)
             M2 == ConstructAt(M1, nb, offset, Read(M1, src))
             M3 == Relocate(M2, Buf(V), 0, offset, nb, 0, nt)
             M4 == Relocate(M3, Buf(V), offset, Size(V) - offset, nb, offset + 1, nt)
             M5 == DestroyN(M4, Buf(V), 0, Size(V))
             sw == RawSwap(V.data_, [buffer_ |-> nb, capacity_ |-> nc])
             M6 == Deallocate(M5, sw[2].buffer_)
         IN  Result(M6, [V EXCEPT !.data_ = sw[1], !.size_ = @ + 1], offset)

\* Vector::Emplace(pos, args): offset = pos - begin(); returns begin() + offset,
\* given here as the offset.
EmplaceOp(M, V, offset, src, nt) ==
    IF Capacity(V) > Size(V)
    THEN IF offset # Size(V)
         THEN LET value_to_emplace == Read(M, src)
                  M1 == UninitializedMoveN(M, Buf(V), Size(V) - 1, 1, Buf(V), Size(V))
                  M2 == MoveBackward(M1, Buf(V), offset, Size(V) - 1, Size(V))
                  M3 == AssignAt(M2, Buf(V), offset, value_to_emplace)
              IN  Result(M3, [V EXCEPT !.size_ = @ + 1], offset)
         ELSE Result(ConstructAt(M, Buf(V), Size(V), Read(M, src)),
                     [V EXCEPT !.size_ = @ + 1], offset)
    ELSE LET nc == GrowthOfCapacity(V)
             nb == Allocate(M, nc)
             M1 == NewRawMemory(M, nb, nc)
             M2 == ConstructAt(M1, nb, offset, Read(M1, src))
             M3 == Relocate(M2, Buf(V), 0, offset, nb, 0, nt)
             M4 == Relocate(M3, Buf(V), offset, Size(V) - offset, nb, offset + 1, nt)
             M5 == DestroyN(M4, Buf(V), 0, Size(V))
             sw == RawSwap(V.data_, [buffer_ |-> nb, capacity_ |-> nc])
             M6 == Deallocate(M5, sw[2].buffer_)
         IN  Result(M6, [V EXCEPT !.data_ = sw[1], !.size_ = @ + 1], offset)

\* Vector::Insert, both overloads: return Emplace(pos, value).
InsertOp(M, V, offset, src, nt) == EmplaceOp(M, V, offset, src, nt)

\* Vector::Erase(pos): distance = pos - begin(); returns begin() + distance,
\* given here as the distance.
EraseOp(M, V, distance) ==
    LET M1 == MoveForward(M, Buf(V), distance + 1, Size(V), distance)
        M2 == DestroyAt(M1, Buf(V), Size(V))
    IN  Result(M2, [V EXCEPT !.size_ = @ - 1], distance)

\* Vector::PopBack.
PopBackOp(M, V) ==
    IF Size(V) = 0 THEN Result(M, V, 0)
    ELSE Result(DestroyAt(M, Buf(V), Size(V)), [V EXCEPT !.size_ = @ - 1], 0)

\* The per-slot assignment loop of operator=(const Vector&): data_[i] = rhs.data_[i]
\* for i in [from, to).
RECURSIVE AssignLoop(_, _, _, _, _)
AssignLoop(M, dbuf, sbuf, from, to) ==
    IF from = to THEN M
    ELSE AssignLoop(AssignAt(M, dbuf, from, Load(M, sbuf, from)),
                    dbuf, sbuf, from + 1, to)

\* A copy assignment that always takes the copy-and-swap branch.
CopyAssignAlwaysReallocates(M, V, rhs, self) ==
    IF self THEN Result(M, V, 0)
    ELSE LET C  == CopyCtorOp(M, rhs)
             sw == SwapOp(V, C.V)
             D  == DtorOp(C.M, sw[2])
         IN  Result(D.M, sw[1], 0)

\* Vector::operator=(const Vector& rhs); self: this == &rhs.
CopyAssignOp(M, V, rhs, self) ==
    IF self THEN Result(M, V, 0)
    ELSE IF Size(rhs) > Capacity(V)
    THEN LET C  == CopyCtorOp(M, rhs)
             sw == SwapOp(V, C.V)
             D  == DtorOp(C.M, sw[2])
         IN  Result(D.M, sw[1], 0)
    ELSE IF Size(rhs) >= Size(V)
    THEN LET M1 == AssignLoop(M, Buf(V), Buf(rhs), 0, Size(V))
             M2 == UninitializedCopyN(M1, Buf(rhs), Size(V), Size(rhs) - Size(V),
                                      Buf(V), Size(V))
         IN  Result(M2, [V EXCEPT !.size_ = Size(rhs)], 0)
    ELSE LET M1 == AssignLoop(M, Buf(V), Buf(rhs), 0, Size(rhs))
             M2 == DestroyN(M1, Buf(V), Size(rhs), Size(V) - Size(rhs))
         IN  Result(M2, [V EXCEPT !.size_ = Size(rhs)], 0)

\* ------------------------------------------------------------- actions
\* operator new succeeds for a request of n slots.
CanAllocate(n) ==
    /\ n <= capLimit
    /\ n # 0 => \E b \in BlockIds : ~heap[b].alloc

\* The condition of every growth path's if constexpr: relocate by move.
ByMove == nothrowMove \/ ~copyable

PushBackOps == {"PushBack(const&)", "PushBack(&&)"}
AppendOps == PushBackOps \cup {"EmplaceBack"}

\* The record of a completed operation: its name, the vector v it was called
\* on, its other vector o, its numeric argument k, the value x it was given to
\* insert, the value it returned, the undefined or leaking accesses it made,
\* the size and capacity of v before it, whether it is a PopBack that
\* immediately follows a PushBack on the same vector, and the index ref of the
\* element of v its argument refers to (-1: the argument is no element of v).
Done(op, v, o, k, x, R) ==
    [op |-> op, v |-> v, o |-> o, k |-> k, x |-> x, ret |-> R.ret, ub |-> R.M.ub,
     size0 |-> Size(vec[v]), cap0 |-> Capacity(vec[v]),
     afterPush |-> op = "PopBack" /\ last.op \in PushBackOps /\ last.v = v,
     ref |-> -1]

\* The record of a completed insertion of the argument src.
DoneInsert(op, v, k, src, R) ==
    [Done(op, v, v, k, Read(Machine(heap), src), R)
        EXCEPT !.ref = IF src.ref THEN src.idx ELSE -1]

\* An operation on v alone that is not an append from an empty vector.
Commit(op, v, k, x, R) ==
    /\ vec' = [vec EXCEPT ![v] = R.V]
    /\ heap' = R.M.h
    /\ last' = Done(op, v, v, k, x, R)
    /\ pushes' = [pushes EXCEPT ![v] = -1]
    /\ UNCHANGED <<nothrowMove, copyable, capLimit, inputs>>

\* An insertion into v at the offset k.
CommitInsert(op, v, k, src, R) ==
    /\ vec' = [vec EXCEPT ![v] = R.V]
    /\ heap' = R.M.h
    /\ last' = DoneInsert(op, v, k, src, R)
    /\ pushes' = [pushes EXCEPT ![v] = -1]
    /\ UNCHANGED <<nothrowMove, copyable, capLimit, inputs>>

\* An append to v.
CommitAppend(op, v, src, R) ==
    /\ vec' = [vec EXCEPT ![v] = R.V]
    /\ heap' = R.M.h
    /\ last' = DoneInsert(op, v, 0, src, R)
    /\ pushes' = [pushes EXCEPT ![v] = IF @ >= 0 THEN @ + 1 ELSE -1]
    /\ UNCHANGED <<nothrowMove, copyable, capLimit, inputs>>

\* An operation on v that also changes the vector o.
CommitBoth(op, v, o, Vv, Vo, M) ==
    /\ vec' = [vec EXCEPT ![v] = Vv, ![o] = Vo]
    /\ heap' = M.h
    /\ last' = Done(op, v, o, 0, Raw, Result(M, Vv, 0))
    /\ pushes' = [pushes EXCEPT ![v] = -1, ![o] = -1]
    /\ UNCHANGED <<nothrowMove, copyable, capLimit, inputs>>

DefaultCtor(v) ==
    /\ ~vec[v].live
    /\ vec' = [vec EXCEPT ![v] = EmptyVector]
    /\ last' = Done("Vector", v, v, 0, Raw, Result(Machine(heap), EmptyVector, 0))
    /\ pushes' = [pushes EXCEPT ![v] = 0]
    /\ UNCHANGED <<heap, nothrowMove, copyable, capLimit, inputs>>

SizedCtor(v, n) ==
    /\ ~vec[v].live
    /\ CanAllocate(n)
    /\ Commit("Vector(n)", v, n, Raw, SizedCtorOp(Machine(heap), n))

CopyCtor(v, o) ==
    /\ copyable
    /\ ~vec[v].live
    /\ vec[o].live
    /\ CanAllocate(Size(vec[o]))
    /\ LET R == CopyCtorOp(Machine(heap), vec[o])
       IN  /\ vec' = [vec EXCEPT ![v] = R.V]
           /\ heap' = R.M.h
           /\ last' = Done("Vector(const&)", v, o, 0, Raw, R)
           /\ pushes' = [pushes EXCEPT ![v] = -1]
           /\ UNCHANGED <<nothrowMove, copyable, capLimit, inputs>>

MoveCtor(v, o) ==
    /\ ~vec[v].live
    /\ vec[o].live
    /\ LET P == MoveCtorOp(vec[o])
       IN  CommitBoth("Vector(&&)", v, o, P[1], P[2], Machine(heap))

Dtor(v) ==
    /\ vec[v].live
    /\ Commit("~Vector", v, 0, Raw, DtorOp(Machine(heap), vec[v]))

CopyAssign(v, o) ==
    /\ copyable
    /\ vec[v].live
    /\ vec[o].live
    /\ Size(vec[o]) > Capacity(vec[v]) => CanAllocate(Size(vec[o]))
    /\ LET R == CopyAssignOp(Machine(heap), vec[v], vec[o], v = o)
       IN  /\ vec' = [vec EXCEPT ![v] = R.V]
           /\ heap' = R.M.h
           /\ last' = Done("operator=(const&)", v, o, 0, Raw, R)
           /\ pushes' = [pushes EXCEPT ![v] = -1]
           /\ UNCHANGED <<nothrowMove, copyable, capLimit, inputs>>

MoveAssign(v, o) ==
    /\ vec[v].live
    /\ vec[o].live
    /\ LET P == MoveAssignOp(vec[v], vec[o], v = o)
       IN  CommitBoth("operator=(&&)", v, o, P[1], P[2], Machine(heap))

Swap(v, o) ==
    /\ vec[v].live
    /\ vec[o].live
    /\ LET P == SwapOp(vec[v], vec[o])
       IN  CommitBoth("Swap", v, o, P[1], IF v = o THEN P[1] ELSE P[2], Machine(heap))

Reserve(v, n) ==
    /\ vec[v].live
    /\ CanAllocate(n)
    /\ Commit("Reserve", v, n, Raw, ReserveOp(Machine(heap), vec[v], n, ByMove))

Resize(v, n) ==
    /\ vec[v].live
    /\ CanAllocate(n)
    /\ Commit("Resize", v, n, Raw, ResizeOp(Machine(heap), vec[v], n, ByMove))

PushBackCopy(v, src) ==
    /\ copyable
    /\ vec[v].live
    /\ Size(vec[v]) = Capacity(vec[v]) => CanAllocate(GrowthOfSize(vec[v]))
    /\ CommitAppend("PushBack(const&)", v, src,
                    PushBackCopyOp(Machine(heap), vec[v], src, ByMove))

PushBack(v, src) ==
    /\ vec[v].live
    /\ ~(Capacity(vec[v]) > Size(vec[v])) => CanAllocate(GrowthOfCapacity(vec[v]))
    /\ CommitAppend("PushBack(&&)", v, src,
                    PushBackOp(Machine(heap), vec[v], src, ByMove))

EmplaceBack(v, src) ==
    /\ vec[v].live
    /\ Size(vec[v]) = Capacity(vec[v]) => CanAllocate(GrowthOfSize(vec[v]))
    /\ CommitAppend("EmplaceBack", v, src,
                    EmplaceBackOp(Machine(heap), vec[v], src, ByMove))

PopBack(v) ==
    /\ vec[v].live
    /\ Commit("PopBack", v, 0, Raw, PopBackOp(Machine(heap), vec[v]))

Emplace(v, offset, src) ==
    /\ vec[v].live
    /\ offset \in 0..Size(vec[v])
    /\ ~(Capacity(vec[v]) > Size(vec[v])) => CanAllocate(GrowthOfCapacity(vec[v]))
    /\ CommitInsert("Emplace", v, offset, src,
              EmplaceOp(Machine(heap), vec[v], offset, src, ByMove))

Insert(v, offset, src) ==
    /\ vec[v].live
    /\ offset \in 0..Size(vec[v])
    /\ ~(Capacity(vec[v]) > Size(vec[v])) => CanAllocate(GrowthOfCapacity(vec[v]))
    /\ CommitInsert("Insert", v, offset, src,
              InsertOp(Machine(heap), vec[v], offset, src, ByMove))

Erase(v, distance) ==
    /\ vec[v].live
    /\ distance \in 0..(Size(vec[v]) - 1)
    /\ Commit("Erase", v, distance, Raw, EraseOp(Machine(heap), vec[v], distance))

\* The operations that end with an exception of the element type.
ThrowsConstructing == {"PushBack(&&) throws constructing",
                       "EmplaceBack throws constructing"}
ThrowsRelocating == {"PushBack(&&) throws relocating",
                     "EmplaceBack throws relocating"}
CtorThrows == {"Vector(n) throws", "Vector(const&) throws"}

\* Vector(n) when T() throws for the k-th element.
SizedCtorThrows(v, n, k) ==
    /\ ~vec[v].live
    /\ CanAllocate(n)
    /\ k \in 1..n
    /\ Commit("Vector(n) throws", v, k, Raw, SizedCtorThrowsOp(Machine(heap), n, k))

\* Vector(const Vector&) when the copy of the k-th element throws.
CopyCtorThrows(v, o, k) ==
    /\ copyable
    /\ ~vec[v].live
    /\ vec[o].live
    /\ CanAllocate(Size(vec[o]))
    /\ k \in 1..Size(vec[o])
    /\ LET R == CopyCtorThrowsOp(Machine(heap), vec[o], k)
       IN  /\ vec' = [vec EXCEPT ![v] = R.V]
           /\ heap' = R.M.h
           /\ last' = Done("Vector(const&) throws", v, o, k, Raw, R)
           /\ pushes' = [pushes EXCEPT ![v] = -1]
           /\ UNCHANGED <<nothrowMove, copyable, capLimit, inputs>>

\* PushBack(U&&) when T(std::forward<U>(value)) throws.
PushBackCtorThrows(v) ==
    /\ vec[v].live
    /\ ~(Capacity(vec[v]) > Size(vec[v])) => CanAllocate(GrowthOfCapacity(vec[v]))
    /\ Commit("PushBack(&&) throws constructing", v, 0, Raw,
              PushBackCtorThrowsOp(Machine(heap), vec[v]))

\* PushBack(U&&) when the relocation of the k-th element throws: a copy, or
\* the move of a T that cannot be copied and whose move may throw.
PushBackRelocateThrows(v, src, k) ==
    /\ vec[v].live
    /\ ~nothrowMove
    /\ ~(Capacity(vec[v]) > Size(vec[v]))
    /\ CanAllocate(GrowthOfCapacity(vec[v]))
    /\ k \in 1..Size(vec[v])
    /\ Commit("PushBack(&&) throws relocating", v, k, Read(Machine(heap), src),
              PushBackRelocateThrowsOp(Machine(heap), vec[v], src, ByMove, k))

\* EmplaceBack when T(std::forward<Args>(args)...) throws.
EmplaceBackCtorThrows(v) ==
    /\ vec[v].live
    /\ Size(vec[v]) = Capacity(vec[v]) => CanAllocate(GrowthOfSize(vec[v]))
    /\ Commit("EmplaceBack throws constructing", v, 0, Raw,
              EmplaceBackCtorThrowsOp(Machine(heap), vec[v]))

\* EmplaceBack when the relocation of the k-th element throws.
EmplaceBackRelocateThrows(v, src, k) ==
    /\ vec[v].live
    /\ ~nothrowMove
    /\ Size(vec[v]) = Capacity(vec[v])
    /\ CanAllocate(GrowthOfSize(vec[v]))
    /\ k \in 1..Size(vec[v])
    /\ Commit("EmplaceBack throws relocating", v, k, Read(Machine(heap), src),
              EmplaceBackRelocateThrowsOp(Machine(heap), vec[v], src, ByMove, k))

\* ------------------------------------------------------------- specifications
NoOp == [op |-> "", v |-> "a", o |-> "a", k |-> 0, x |-> Raw, ret |-> 0, ub |-> {},
         size0 |-> 0, cap0 |-> 0, afterPush |-> FALSE, ref |-> -1]

InitWith(limit, vals, nts) ==
    /\ vec = [v \in Vecs |-> EmptyVector]
    /\ heap = [b \in BlockIds |-> FreeBlock]
    /\ nothrowMove \in nts
    /\ copyable = TRUE
    /\ capLimit = limit
    /\ inputs = vals
    /\ pushes = [v \in Vecs |-> 0]
    /\ last = NoOp

\* The operations on one vector.
Init == InitWith(MaxCap, Values, BOOLEAN)

Next ==
    \/ DefaultCtor("a")
    \/ \E n \in 0..capLimit : SizedCtor("a", n)
    \/ Dtor("a")
    \/ \E n \in 0..capLimit : Reserve("a", n)
    \/ \E n \in 0..capLimit : Resize("a", n)
    \/ \E src \in ValSrcs : PushBackCopy("a", src)
    \/ \E src \in ValSrcs : PushBack("a", src)
    \/ \E src \in ValSrcs : EmplaceBack("a", src)
    \/ PopBack("a")
    \/ \E k \in 0..capLimit, src \in ValSrcs : Emplace("a", k, src)
    \/ \E k \in 0..capLimit, src \in ValSrcs : Insert("a", k, src)
    \/ \E k \in 0..capLimit : Erase("a", k)

Spec == Init /\ [][Next]_vars

\* Every operation, on two vectors, up to a smaller capacity.
InitPair == InitWith(MaxPairCap, {"A"}, {TRUE})

NextPair ==
    \E v \in Vecs :
        \/ DefaultCtor(v)
        \/ \E n \in 0..capLimit : SizedCtor(v, n)
        \/ \E o \in Vecs \ {v} : CopyCtor(v, o)
        \/ \E o \in Vecs \ {v} : MoveCtor(v, o)
        \/ Dtor(v)
        \/ \E o \in Vecs : CopyAssign(v, o)
        \/ \E o \in Vecs : MoveAssign(v, o)
        \/ \E o \in Vecs : Swap(v, o)
        \/ \E n \in 0..capLimit : Reserve(v, n)
        \/ \E n \in 0..capLimit : Resize(v, n)
        \/ \E src \in ValSrcs : PushBackCopy(v, src)
        \/ \E src \in ValSrcs : PushBack(v, src)
        \/ \E src \in ValSrcs : EmplaceBack(v, src)
        \/ PopBack(v)
        \/ \E k \in 0..capLimit, src \in ValSrcs : Emplace(v, k, src)
        \/ \E k \in 0..capLimit, src \in ValSrcs : Insert(v, k, src)
        \/ \E k \in 0..capLimit : Erase(v, k)

SpecPair == InitPair /\ [][NextPair]_vars

\* The appends and Reserve on one vector, up to a larger capacity.
InitAppend == InitWith(MaxAppendCap, Values, BOOLEAN)

NextAppend ==
    \/ \E src \in Srcs(vec["a"]) : PushBackCopy("a", src)
    \/ \E src \in Srcs(vec["a"]) : PushBack("a", src)
    \/ \E src \in Srcs(vec["a"]) : EmplaceBack("a", src)
    \/ \E n \in 0..capLimit : Reserve("a", n)

SpecAppend == InitAppend /\ [][NextAppend]_vars

\* Construction, copying, moving and destruction of two vectors, with
\* PushBack, PopBack and Reserve to fill, shrink and grow them.
InitCopy == InitWith(MaxCopyCap, {"A"}, {TRUE})

NextCopy ==
    \E v \in Vecs :
        \/ DefaultCtor(v)
        \/ \E n \in 0..capLimit : SizedCtor(v, n)
        \/ \E o \in Vecs \ {v} : CopyCtor(v, o)
        \/ \E o \in Vecs \ {v} : MoveCtor(v, o)
        \/ Dtor(v)
        \/ \E o \in Vecs : CopyAssign(v, o)
        \/ \E n \in 0..capLimit : Reserve(v, n)
        \/ \E src \in ValSrcs : PushBackCopy(v, src)
        \/ PopBack(v)

SpecCopy == InitCopy /\ [][NextCopy]_vars

\* Construction and appends to the vector a and copies of it into b, for every
\* element type, with the exceptions its constructors may throw.
InitThrow ==
    /\ vec = [v \in Vecs |-> EmptyVector]
    /\ heap = [b \in BlockIds |-> FreeBlock]
    /\ nothrowMove \in BOOLEAN
    /\ copyable \in BOOLEAN
    /\ capLimit = MaxThrowCap
    /\ inputs = {"A"}
    /\ pushes = [v \in Vecs |-> 0]
    /\ last = NoOp

NextThrow ==
    \/ DefaultCtor("a")
    \/ \E n \in 0..capLimit : SizedCtor("a", n)
    \/ \E n \in 0..capLimit, k \in 1..capLimit : SizedCtorThrows("a", n, k)
    \/ \E v \in Vecs : Dtor(v)
    \/ CopyCtor("b", "a")
    \/ \E k \in 1..capLimit : CopyCtorThrows("b", "a", k)
    \/ \E n \in 0..capLimit : Reserve("a", n)
    \/ \E src \in ValSrcs : PushBack("a", src)
    \/ \E src \in ValSrcs : EmplaceBack("a", src)
    \/ PushBackCtorThrows("a")
    \/ EmplaceBackCtorThrows("a")
    \/ \E src \in ValSrcs, k \in 1..capLimit : PushBackRelocateThrows("a", src, k)
    \/ \E src \in ValSrcs, k \in 1..capLimit : EmplaceBackRelocateThrows("a", src, k)

SpecThrow == InitThrow /\ [][NextThrow]_vars

\* The insertions into one vector, by value and by reference to one of its
\* own elements, and Reserve.
InitAlias == InitWith(MaxAliasCap, Values, BOOLEAN)

NextAlias ==
    \/ \E src \in Srcs(vec["a"]) : PushBackCopy("a", src)
    \/ \E src \in Srcs(vec["a"]) : PushBack("a", src)
    \/ \E src \in Srcs(vec["a"]) : EmplaceBack("a", src)
    \/ \E k \in 0..capLimit, src \in Srcs(vec["a"]) : Emplace("a", k, src)
    \/ \E k \in 0..capLimit, src \in Srcs(vec["a"]) : Insert("a", k, src)
    \/ \E n \in 0..capLimit : Reserve("a", n)

SpecAlias == InitAlias /\ [][NextAlias]_vars

\* ------------------------------------------------------------- claims
\* The step just taken is the operation op (one of ops).
Did(ops) == last'.op \in ops
\* The vector the step was called on, before and after the step.
Before == vec[last'.v]
After == vec'[last'.v]
ElemsBefore == Elems(Machine(heap), Before)
ElemsAfter == Elems(Machine(heap'), After)
\* The slot i of the block V owns holds a live object in the heap h.
LiveSlot(h, V, i) == IsLive(Load(Machine(h), Buf(V), i))
Prefix(s, n) == SubSeq(s, 1, n)

\* C1: in every reachable state every live Vector has Size() <= Capacity().
C1_SizeLeCapacity ==
    \A v \in Vecs : vec[v].live => Size(vec[v]) <= Capacity(vec[v])

\* A copy assignment between two distinct vectors has left both full.
C1_Witness ==
    /\ last.op = "operator=(const&)"
    /\ last.v # last.o
    /\ \A v \in Vecs : vec[v].live /\ Size(vec[v]) = 2 /\ Capacity(vec[v]) = 2

\* C2: in every reachable state, of the slots of a live Vector's block exactly
\* those with index in [0, size) hold a live object; those in [size, capacity)
\* are raw.
C2_LiveExactlyBelowSize ==
    \A v \in Vecs :
        vec[v].live =>
            \A i \in 0..(Capacity(vec[v]) - 1) :
                LiveSlot(heap, vec[v], i) <=> i < Size(vec[v])

\* C3: PopBack on an empty vector changes nothing; on a vector of size n > 0 it
\* destroys the element at index n - 1, sets the size to n - 1 and leaves the
\* capacity and the elements [0, n - 1) unchanged.
C3_PopBack ==
    [][Did({"PopBack"}) =>
        LET n == Size(Before)
        IN  /\ n = 0 => After = Before /\ heap' = heap
            /\ n > 0 =>
                /\ ~LiveSlot(heap', After, n - 1)
                /\ Size(After) = n - 1
                /\ Capacity(After) = Capacity(Before)
                /\ ElemsAfter = Prefix(ElemsBefore, n - 1)]_vars

\* The capacities of an empty vector after 0, 1, ..., 5 appends.
CapSeq == <<0, 1, 2, 4, 4, 8>>

\* C4: an append (either PushBack, EmplaceBack) changes the capacity only if
\* size = capacity when it is called; the capacity then becomes max(2*old, 1)
\* for the copy form and max(2*old, size + 1) for the forwarding and emplace
\* forms; five appends to an empty vector give the capacities 0, 1, 2, 4, 4, 8
\* and the size 5.
C4_AppendCapacity ==
    [][Did(AppendOps) =>
        LET old  == Capacity(Before)
            size == Size(Before)
            new  == Capacity(After)
            n    == pushes'[last'.v]
        IN  /\ new # old => size = old
            /\ size = old =>
                new = IF last'.op = "PushBack(const&)"
                      THEN Max(2 * old, 1) ELSE Max(2 * old, size + 1)
            /\ n \in 1..5 =>
                /\ old = CapSeq[n]
                /\ new = CapSeq[n + 1]
                /\ Size(After) = n]_vars

\* Five appends to an empty vector have been made by PushBack.
C4_Witness ==
    /\ pushes["a"] = 5
    /\ last.op \in PushBackOps
    /\ Size(vec["a"]) = 5
    /\ Capacity(vec["a"]) = 8

\* C5: a PushBack keeps the elements the vector had, in order, below the new
\* one, and a PopBack that immediately follows it restores the size the
\* vector had before the PushBack and leaves those elements as they were,
\* whether or not the PushBack reallocated.
C5_PushBackPopBack ==
    [][/\ Did(PushBackOps) =>
            /\ Size(After) = Size(Before) + 1
            /\ Prefix(ElemsAfter, Size(Before)) = ElemsBefore
       /\ (Did({"PopBack"}) /\ last.op \in PushBackOps /\ last.v = last'.v) =>
            /\ Size(After) = last.size0
            /\ ElemsAfter = Prefix(ElemsBefore, last.size0)]_vars

\* A PopBack has immediately followed a PushBack onto a vector of two elements.
C5_Witness ==
    /\ last.op = "PopBack"
    /\ last.afterPush
    /\ last.size0 = 3
    /\ last.cap0 = 4
    /\ Size(vec[last.v]) = 2

\* C6: Emplace and Insert at offset k in [0, size] give old[0..k), the new
\* element, old[k..size); the size grows by one; the position returned is k.
C6_Emplace ==
    [][Did({"Emplace", "Insert"}) =>
        LET k == last'.k
            n == Size(Before)
        IN  /\ ElemsAfter = Prefix(ElemsBefore, k) \o <<last'.x>>
                                \o SubSeq(ElemsBefore, k + 1, n)
            /\ Size(After) = n + 1
            /\ last'.ret = k]_vars

\* An Insert at an interior position of a full vector has reallocated it.
C6_Witness ==
    /\ last.op = "Insert"
    /\ last.k = 1
    /\ last.size0 = 2
    /\ last.cap0 = 2
    /\ Capacity(vec[last.v]) = 4
    /\ Elems(Machine(heap), vec[last.v]) = <<"A", "B", "A">>

\* C7: Erase at offset k in [0, size) gives old[0..k), old[k+1..size), destroys
\* the vacated last slot (index size - 1 before the call), decrements the
\* size, leaves the capacity unchanged and returns the position k.
C7_Erase ==
    [][Did({"Erase"}) =>
        LET k == last'.k
            n == Size(Before)
        IN  /\ ElemsAfter = Prefix(ElemsBefore, k) \o SubSeq(ElemsBefore, k + 2, n)
            /\ ~LiveSlot(heap', After, n - 1)
            /\ Size(After) = n - 1
            /\ Capacity(After) = Capacity(Before)
            /\ last'.ret = k]_vars

\* C8: Reserve(n) with n <= Capacity() allocates nothing, relocates nothing and
\* leaves capacity, size, block and elements as they were; with
\* n > Capacity() it sets the capacity to n and leaves the size and the
\* elements as they were.
C8_Reserve ==
    [][Did({"Reserve"}) =>
        LET n == last'.k
        IN  /\ n <= Capacity(Before) => After = Before /\ heap' = heap
            /\ n > Capacity(Before) =>
                /\ Capacity(After) = n
                /\ Size(After) = Size(Before)
                /\ ElemsAfter = ElemsBefore]_vars

\* A Reserve has grown a vector of two elements.
C8_Witness ==
    /\ last.op = "Reserve"
    /\ last.k = 4
    /\ last.cap0 = 2
    /\ Size(vec[last.v]) = 2
    /\ Elems(Machine(heap), vec[last.v]) = <<"A", "B">>

\* C9: Resize(n) with n < size destroys exactly the elements [n, size) and
\* leaves the elements [0, n), the capacity and every other slot as they were;
\* with n > size it keeps the elements [0, size) and appends n - size
\* value-initialised ones; Size() = n afterwards; with n = size nothing changes.
C9_Resize ==
    [][Did({"Resize"}) =>
        LET n == last'.k
            s == Size(Before)
        IN  /\ Size(After) = n
            /\ n < s =>
                /\ \A i \in n..(s - 1) : ~LiveSlot(heap', After, i)
                /\ ElemsAfter = Prefix(ElemsBefore, n)
                /\ After.data_ = Before.data_
                /\ \A i \in (0..(Capacity(Before) - 1)) \ (n..(s - 1)) :
                        Load(Machine(heap'), Buf(After), i)
                            = Load(Machine(heap), Buf(Before), i)
            /\ n > s =>
                /\ Prefix(ElemsAfter, s) = ElemsBefore
                /\ \A i \in (s + 1)..n : ElemsAfter[i] = DefaultVal
            /\ n = s => After = Before /\ heap' = heap]_vars

\* A Resize has shrunk a vector of three elements to one.
C9_Witness ==
    /\ last.op = "Resize"
    /\ last.k = 1
    /\ last.size0 = 3
    /\ Size(vec[last.v]) = 1
    /\ Elems(Machine(heap), vec[last.v]) = <<"B">>

\* C10 as stated: after a = std::move(b), a # b, a holds b's former elements,
\* size and capacity, and b is left with size 0 and capacity 0 whatever a held.
C10_MovedFromEmpty ==
    [][(Did({"operator=(&&)"}) /\ last'.v # last'.o) =>
        LET a == last'.v
            b == last'.o
        IN  /\ Elems(Machine(heap'), vec'[a]) = Elems(Machine(heap), vec[b])
            /\ Size(vec'[a]) = Size(vec[b])
            /\ Capacity(vec'[a]) = Capacity(vec[b])
            /\ Size(vec'[b]) = 0
            /\ Capacity(vec'[b]) = 0]_vars

\* C10 as amended: after a = std::move(b), a # b, a holds b's former elements,
\* size and capacity, and b holds a's former elements, size and capacity: b is
\* left with size 0 and capacity 0 exactly when a had capacity 0.
C10_MoveAssignSwaps ==
    [][(Did({"operator=(&&)"}) /\ last'.v # last'.o) =>
        LET a == last'.v
            b == last'.o
        IN  /\ Elems(Machine(heap'), vec'[a]) = Elems(Machine(heap), vec[b])
            /\ Size(vec'[a]) = Size(vec[b])
            /\ Capacity(vec'[a]) = Capacity(vec[b])
            /\ Elems(Machine(heap'), vec'[b]) = Elems(Machine(heap), vec[a])
            /\ Size(vec'[b]) = Size(vec[a])
            /\ Capacity(vec'[b]) = Capacity(vec[a])
            /\ (Size(vec'[b]) = 0 /\ Capacity(vec'[b]) = 0)
                    <=> Capacity(vec[a]) = 0]_vars

\* A move assignment has given two elements to a vector that held one.
C10_Witness ==
    /\ last.op = "operator=(&&)"
    /\ last.v # last.o
    /\ last.size0 = 1
    /\ Size(vec[last.v]) = 2
    /\ Size(vec[last.o]) = 1

\* C11: move construction Vector a(std::move(b)) leaves b with size 0 and
\* capacity 0 and gives a the block, the size and the capacity b had; no
\* element is constructed, copied or destroyed (the heap is unchanged).
C11_MoveCtor ==
    [][Did({"Vector(&&)"}) =>
        LET a == last'.v
            b == last'.o
        IN  /\ Size(vec'[b]) = 0
            /\ Capacity(vec'[b]) = 0
            /\ vec'[b].live
            /\ Buf(vec'[a]) = Buf(vec[b])
            /\ Size(vec'[a]) = Size(vec[b])
            /\ Capacity(vec'[a]) = Capacity(vec[b])
            /\ Elems(Machine(heap'), vec'[a]) = Elems(Machine(heap), vec[b])
            /\ heap' = heap]_vars

\* A move construction has taken a block of capacity 2 holding one element.
C11_Witness ==
    /\ last.op = "Vector(&&)"
    /\ Size(vec[last.v]) = 1
    /\ Capacity(vec[last.v]) = 2
    /\ Buf(vec[last.v]) # NullPtr
    /\ Buf(vec[last.o]) = NullPtr

\* The vector w and the block it owns are the same before and after the step.
Untouched(w) ==
    /\ vec'[w] = vec[w]
    /\ Elems(Machine(heap'), vec'[w]) = Elems(Machine(heap), vec[w])
    /\ Buf(vec[w]) # NullPtr => heap'[Buf(vec[w])] = heap[Buf(vec[w])]

\* C12: copy construction Vector a(b) gives a the size of b, a capacity equal
\* to the size of b (not to its capacity), elements equal to those of b in
\* order, stored in a block other than b's, and leaves b unchanged; every
\* later operation that changes one of the two vectors (anything but moving
\* out of the other) leaves the other vector and its elements unchanged.
C12_CopyCtor ==
    [][/\ Did({"Vector(const&)"}) =>
            LET a == last'.v
                b == last'.o
            IN  /\ Size(vec'[a]) = Size(vec[b])
                /\ Capacity(vec'[a]) = Size(vec[b])
                /\ Elems(Machine(heap'), vec'[a]) = Elems(Machine(heap), vec[b])
                /\ Size(vec[b]) > 0 =>
                        /\ Buf(vec'[a]) # NullPtr
                        /\ Buf(vec'[a]) # Buf(vec[b])
                /\ Size(vec[b]) = 0 => Buf(vec'[a]) = NullPtr
                /\ Untouched(b)
       /\ ~Did({"Vector(&&)", "operator=(&&)", "Swap"}) =>
            \A w \in Vecs \ {last'.v} : vec[w].live => Untouched(w)]_vars

\* A copy construction from a vector of one element and capacity 2 has made
\* a vector of capacity 1.
C12_Witness ==
    /\ last.op = "Vector(const&)"
    /\ Size(vec[last.o]) = 1
    /\ Capacity(vec[last.o]) = 2
    /\ Size(vec[last.v]) = 1
    /\ Capacity(vec[last.v]) = 1
    /\ Elems(Machine(heap), vec[last.v]) = <<"A">>

\* C13: after a copy assignment a = b of two distinct vectors, a has the size
\* of b and elements equal to those of b index by index, and b is unchanged;
\* the capacity of a becomes the size of b when that exceeded a's capacity
\* (a new block), and otherwise a keeps its block and capacity, every slot
\* assigned to holds an element, and the surplus elements of a, if any, are
\* destroyed; a = a changes nothing.
C13_CopyAssign ==
    [][Did({"operator=(const&)"}) =>
        LET a == last'.v
            b == last'.o
        IN  /\ a = b => vec' = vec /\ heap' = heap
            /\ a # b =>
                /\ Size(vec'[a]) = Size(vec[b])
                /\ Elems(Machine(heap'), vec'[a]) = Elems(Machine(heap), vec[b])
                /\ Untouched(b)
                /\ Size(vec[b]) > Capacity(vec[a]) =>
                        /\ Capacity(vec'[a]) = Size(vec[b])
                        /\ Buf(vec'[a]) # Buf(vec[b])
                /\ Size(vec[b]) <= Capacity(vec[a]) =>
                        /\ vec'[a].data_ = vec[a].data_
                        /\ last'.ub \cap {"assign_raw", "oob"} = {}
                        /\ \A i \in Size(vec[b])..(Size(vec[a]) - 1) :
                                ~LiveSlot(heap', vec'[a], i)]_vars

\* A copy assignment of a vector of one element to a vector of two elements
\* has kept the capacity 2 and destroyed the surplus element.
C13_Witness ==
    /\ last.op = "operator=(const&)"
    /\ last.v # last.o
    /\ last.size0 = 2
    /\ last.cap0 = 2
    /\ Size(vec[last.o]) = 1
    /\ Size(vec[last.v]) = 1
    /\ Capacity(vec[last.v]) = 2

\* C14: when the construction of the new element throws in PushBack(U&&) or
\* in EmplaceBack, with or without spare capacity, the vector keeps its size,
\* capacity, block and elements, and the heap is as before the call: the
\* block allocated for the growth is released and no element is left behind.
C14_NewElementThrows ==
    [][Did(ThrowsConstructing) =>
        /\ After = Before
        /\ ElemsAfter = ElemsBefore
        /\ heap' = heap
        /\ last'.ub = {}]_vars

\* The construction of the new element has thrown in an EmplaceBack to a full
\* vector of two elements.
C14_Witness ==
    /\ last.op = "EmplaceBack throws constructing"
    /\ last.size0 = 2
    /\ last.cap0 = 2
    /\ Capacity(vec[last.v]) = 2
    /\ Elems(Machine(heap), vec[last.v]) = <<"0", "A">>

\* C15: when the relocation of the existing elements throws on the growth
\* path of PushBack(U&&) or of EmplaceBack, the new element constructed in
\* the new block is destroyed before that block is released, and the vector
\* keeps its size, capacity, block and elements.
C15_RelocationThrows ==
    [][Did(ThrowsRelocating) =>
        /\ "leak" \notin last'.ub
        /\ After = Before
        /\ ElemsAfter = ElemsBefore
        /\ heap' = heap]_vars

\* C16: when the construction of the k-th element throws in Vector(n) or in
\* the copy constructor, the k - 1 elements constructed are destroyed and the
\* new block is released: the vector does not come to life, the heap is as
\* before the call, no block was released with a live element, and the
\* source of a copy is unchanged.
C16_CtorThrows ==
    [][Did(CtorThrows) =>
        /\ ~After.live
        /\ After.data_ = EmptyMemory
        /\ heap' = heap
        /\ last'.ub = {}
        /\ last'.op = "Vector(const&) throws" => Untouched(last'.o)]_vars

\* The copy of the second of three elements has thrown in a copy construction.
C16_Witness ==
    /\ last.op = "Vector(const&) throws"
    /\ last.k = 2
    /\ last.v # last.o
    /\ ~vec[last.v].live
    /\ Elems(Machine(heap), vec[last.o]) = <<"0", "A", "A">>

\* C17: in every reachable state each live vector owns exactly one block (an
\* allocated block of capacity_ slots when its capacity is positive, none
\* otherwise), no block is owned by two live vectors, and every allocated
\* block is owned by a live vector.
C17_ExclusiveBlocks ==
    /\ \A v \in Vecs :
            vec[v].live =>
                /\ Capacity(vec[v]) > 0 <=> Buf(vec[v]) # NullPtr
                /\ Buf(vec[v]) # NullPtr =>
                        /\ heap[Buf(vec[v])].alloc
                        /\ Len(heap[Buf(vec[v])].slots) = Capacity(vec[v])
                /\ \A w \in Vecs \ {v} :
                        (vec[w].live /\ Capacity(vec[v]) > 0) =>
                            Buf(vec[w]) # Buf(vec[v])
    /\ \A b \in BlockIds :
            heap[b].alloc => \E v \in Vecs : vec[v].live /\ Buf(vec[v]) = b

\* A Swap has exchanged the blocks of two vectors of different capacities.
C17_Witness ==
    /\ last.op = "Swap"
    /\ last.v # last.o
    /\ last.cap0 = 1
    /\ Capacity(vec[last.v]) = 2
    /\ Capacity(vec[last.o]) = 1
    /\ Buf(vec[last.v]) # Buf(vec[last.o])

\* C18: every slot an operation constructs into, assigns to or destroys has
\* an index below the capacity of its block: no operation, PopBack and Erase
\* on a full vector included, makes an access outside the block.
C18_AccessBelowCapacity ==
    []["oob" \notin last'.ub]_vars

\* The accesses that run a destructor where no element lives, or drop an
\* element without running its destructor.
LifetimeErrors == {"oob", "destroy_raw", "leak", "overwrite_live"}

\* C19: in a sequence of operations without exceptions, no destructor runs
\* where no element lives (never twice, never on a raw slot), no element is
\* dropped without its destructor (by the release of its block or by a
\* construction over it), and once every vector is destroyed no block is
\* left allocated.
C19_DestroyedExactlyOnce ==
    [][/\ last'.ub \cap LifetimeErrors = {}
       /\ (\A v \in Vecs : ~vec'[v].live) =>
                \A b \in BlockIds : ~heap'[b].alloc]_vars

\* C20: when the argument of PushBack, EmplaceBack, Insert or Emplace is a
\* reference to the element v[i] of the vector itself, the element inserted
\* (at the end for the appends, at the offset for Insert and Emplace) has the
\* value v[i] had when the call was made, with and without reallocation.
C20_InsertOwnElement ==
    [][(Did(AppendOps \cup {"Emplace", "Insert"}) /\ last'.ref >= 0) =>
        LET i   == last'.ref
            pos == IF last'.op \in AppendOps THEN Size(Before) ELSE last'.k
        IN  /\ Size(After) = Size(Before) + 1
            /\ ElemsAfter[pos + 1] = ElemsBefore[i + 1]
            /\ last'.x = ElemsBefore[i + 1]]_vars

\* An Insert at the front of a vector with spare capacity, of a reference to
\* its own last element, has shifted that element before storing the value.
C20_Witness ==
    /\ last.op = "Insert"
    /\ last.ref = 2
    /\ last.k = 0
    /\ last.size0 = 3
    /\ last.cap0 = 4
    /\ Elems(Machine(heap), vec[last.v]) = <<"B", "A", "A", "B">>

====
